---- MODULE Spec2Model ----
(***************************************************************************)
(* Model of the NFC emulator's command front end (cmdline.c): the NDEF     *)
(* builder, the SNEP request encoder, the argument parsers and the four    *)
(* command dispatchers (snep, nci, llcp, tag) acting on the host's remote  *)
(* endpoints, RF interfaces and tags.                                      *)
(***************************************************************************)
EXTENDS Integers, Sequences, FiniteSets, TLC

(***************************************************************************)
(* Bounds of the model.                                                    *)
(***************************************************************************)
\* destination capacities tried by the builder specification: 0..MaxLen
MaxLen == 22
\* record literals on one command line: 0..MaxRecsIn
MaxRecsIn == 5
\* the long payload text has 4 * LongGroups characters, 3 * LongGroups bytes
LongGroups == 86

(***************************************************************************)
(* Constants of the protocol headers (ndef.h, llcp.h, nfc.h, nfc-tag.h,    *)
(* snep.h), which cmdline.c includes.                                      *)
(***************************************************************************)
NDEF_FLAG_MB == 128
NDEF_FLAG_ME == 64
NDEF_FLAG_CF == 32
NDEF_FLAG_SR == 16
NDEF_FLAG_IL == 8
NDEF_TNF_BITS == 7
\* the flag bits a caller may give: the derived bits MB, ME and IL are
\* reserved to the builder
NDEF_FLAG_BITS == 48
NDEF_NUMBER_OF_TNFS == 7
LLCP_NUMBER_OF_SAPS == 64
LLCP_SAP_LM == 0
NUMBER_OF_SUPPORTED_NCI_RF_INTERFACES == 3
NUMBER_OF_NCI_NOTIFICATION_TYPES == 3
NUMBER_OF_NCI_RF_DEACT_TYPE == 4
NUMBER_OF_NCI_RF_DEACT_REASON == 3
NCI_RF_DEACT_DISCOVERY == 3
NCI_RF_DEACT_RF_LINK_LOSS == 2
MAXIMUM_SUPPORTED_TAG_SIZE == 266
\* ARRAY_SIZE(nfc_res)
NumRes == 2
\* sizeof(struct snep): version, request code, 4 length bytes
SizeofSnep == 6
\* the link-layer frame the host hands to create_snep_cp
SnepFrameLen == 26

\* size_t arithmetic is modular; the model keeps 30 bits of it, every length
\* of the model being far below
SizeBits == 30
SizeMod == 2 ^ SizeBits

SizeSub(a, b) == (a - b) % SizeMod

(***************************************************************************)
(* Bit operations on flag bytes; bit is a power of two.                    *)
(***************************************************************************)
HasBit(f, bit) == (f \div bit) % 2 = 1

\* f | (bit * c), c being 0 or 1
OrBit(f, bit, c) == IF c = 1 /\ ~HasBit(f, bit) THEN f + bit ELSE f

\* f & ~NDEF_FLAG_BITS: what is left of f outside CF and SR
OutsideFlagBits(f) ==
    f - (IF HasBit(f, NDEF_FLAG_CF) THEN NDEF_FLAG_CF ELSE 0)
      - (IF HasBit(f, NDEF_FLAG_SR) THEN NDEF_FLAG_SR ELSE 0)

VARIABLE lenient    \* the decoder takes a text with one character left over

(***************************************************************************)
(* base64url (base64.h).  A text is a sequence of characters, each given   *)
(* by its 6-bit value 0..63; BadChar stands for a character outside the    *)
(* alphabet.                                                               *)
(***************************************************************************)
BadChar == 64

\* Whether the text decodes: alphabet characters only.  A single character
\* left over after the groups of four holds no whole byte; the decoder is
\* in base64.c, outside cmdline.c, and whether it refuses such a text or
\* decodes it to the bytes before it is left to the build.
IsBase64(text) ==
    /\ \A k \in 1 .. Len(text) : text[k] < BadChar
    /\ (lenient \/ Len(text) % 4 # 1)

\* the number of bytes a base64url text of n characters holds
DecodedLen(n) == (n \div 4) * 3 + (IF n % 4 = 0 THEN 0 ELSE (n % 4) - 1)

\* byte number j (from 1) of the text: 4 characters hold 3 bytes
DecodedByte(text, j) ==
    LET c == 4 * ((j - 1) \div 3) + 1
        k == (j - 1) % 3
    IN  IF k = 0 THEN text[c] * 4 + (text[c + 1] \div 16)
        ELSE IF k = 1 THEN (text[c + 1] % 16) * 16 + (text[c + 2] \div 4)
        ELSE (text[c + 2] % 4) * 64 + text[c + 3]

\* decode_base64(in, ilen, out, olen): the decoded bytes and their number,
\* or res = -1 when the text does not decode or does not fit in olen bytes
decode_base64(text, olen) ==
    IF ~IsBase64(text) \/ DecodedLen(Len(text)) > olen
    THEN [res |-> -1, bytes |-> << >>]
    ELSE [res |-> DecodedLen(Len(text)),
          bytes |-> [j \in 1 .. DecodedLen(Len(text)) |-> DecodedByte(text, j)]]

\* the number of characters encode_base64 makes of n bytes, without padding
EncodedLen(n) == (n \div 3) * 4 + (IF n % 3 = 0 THEN 0 ELSE (n % 3) + 1)

\* character number j (from 1) of the encoding: 3 bytes make 4 characters
EncodedChar(bytes, j) ==
    LET b == 3 * ((j - 1) \div 4) + 1
        k == (j - 1) % 4
        at(x) == IF x <= Len(bytes) THEN bytes[x] ELSE 0
    IN  IF k = 0 THEN bytes[b] \div 4
        ELSE IF k = 1 THEN (bytes[b] % 4) * 16 + (at(b + 1) \div 16)
        ELSE IF k = 2 THEN (bytes[b + 1] % 16) * 4 + (at(b + 2) \div 64)
        ELSE bytes[b + 2] % 64

encode_base64(bytes) ==
    [j \in 1 .. EncodedLen(Len(bytes)) |-> EncodedChar(bytes, j)]

(***************************************************************************)
(* NDEF record header (ndef.h): flags|tnf, type length, payload length in  *)
(* 1 byte (SR) or 4 bytes, id length if IL.                                *)
(***************************************************************************)
\* ndef_create_rec returns the size of the header it wrote
ndef_create_rec(flags) ==
    2 + (IF HasBit(flags, NDEF_FLAG_SR) THEN 1 ELSE 4)
      + (IF HasBit(flags, NDEF_FLAG_IL) THEN 1 ELSE 0)

\* the header bytes once the length setters have run
NdefHeaderBytes(flags, tnf, tlen, ilen, plen) ==
    << flags + (tnf % (NDEF_TNF_BITS + 1)), tlen % 256 >>
    \o (IF HasBit(flags, NDEF_FLAG_SR) THEN << plen % 256 >>
        ELSE << 0, 0, (plen \div 256) % 256, plen % 256 >>)
    \o (IF HasBit(flags, NDEF_FLAG_IL) THEN << ilen % 256 >> ELSE << >>)

(***************************************************************************)
(* NDEF builder.  A record parameter is [flags, tnf, type, id, payload],   *)
(* the three fields being base64url texts.  The result carries, beside the *)
(* return value res, what the call did to the buffer: hi, one past the     *)
(* highest offset written; out, the bytes written in offset order; recs,   *)
(* the header fields of each record as set.                                *)
(***************************************************************************)
\* the flags with the test for the last record one off
RecFlags_LastOffByOne(record, i, nrecords) ==
    LET idlen == Len(record.id) IN
    OrBit(OrBit(OrBit(record.flags % 256,
                      NDEF_FLAG_MB, IF i = 0 THEN 1 ELSE 0),
                NDEF_FLAG_ME, IF i = nrecords THEN 1 ELSE 0),
          NDEF_FLAG_IL, IF idlen # 0 THEN 1 ELSE 0)

\* flags = record->flags | MB * (!i) | ME * (i+1 == nrecords) | IL * (!!idlen)
RecFlags(record, i, nrecords) ==
    LET idlen == Len(record.id) IN
    OrBit(OrBit(OrBit(record.flags % 256,
                      NDEF_FLAG_MB, IF i = 0 THEN 1 ELSE 0),
                NDEF_FLAG_ME, IF i + 1 = nrecords THEN 1 ELSE 0),
          NDEF_FLAG_IL, IF idlen # 0 THEN 1 ELSE 0)

BuildFail(hi, recs, out) == [res |-> -1, hi |-> hi, recs |-> recs, out |-> out]

NoField == [res |-> 0, bytes |-> << >>]

RecFail(hi) == [next |-> -1, hi |-> hi, bytes |-> << >>, hdr |-> << >>]

\* One iteration of the loop of build_ndef_msg, for a record written at
\* offset off0 with a header of hdr bytes, in the order of the code: each
\* step is handed what the one before decoded.  next |-> the offset after
\* the record, or -1.
\* lines 100-108: the payload was decoded to p at offset off
BuildPayload(record, flags, off0, hdr, t, d, off, p) ==
    IF p.res < 0 THEN RecFail(off)
    ELSE IF p.res > 255 /\ HasBit(flags, NDEF_FLAG_SR)
    THEN RecFail(off + p.res)
    ELSE [next  |-> off + p.res,
          hi    |-> off + p.res,
          bytes |-> NdefHeaderBytes(flags, record.tnf, t.res, d.res, p.res)
                    \o t.bytes \o d.bytes \o p.bytes,
          hdr   |-> << [flags |-> flags, tnf |-> record.tnf, off |-> off0,
                        hdrlen |-> hdr, tlen |-> t.res, ilen |-> d.res,
                        plen |-> p.res, type |-> t.bytes, id |-> d.bytes,
                        payload |-> p.bytes] >>]

\* lines 90-99: the id was decoded to d at offset off, if the record has one
BuildId(record, flags, len, off0, hdr, t, off, d) ==
    IF d.res < 0 THEN RecFail(off)
    ELSE BuildPayload(record, flags, off0, hdr, t, d, off + d.res,
                      decode_base64(record.payload,
                                    SizeSub(len, off + d.res)))

\* lines 80-89: the type was decoded to t at offset off
BuildType(record, flags, len, off0, hdr, off, t) ==
    IF t.res < 0 THEN RecFail(off)
    ELSE BuildId(record, flags, len, off0, hdr, t, off + t.res,
                 IF HasBit(flags, NDEF_FLAG_IL)
                 THEN decode_base64(record.id, SizeSub(len, off + t.res))
                 ELSE NoField)

\* lines 74-79: the header of hdr bytes is written at off0, whatever len is
BuildHeader(record, flags, len, off0, hdr) ==
    BuildType(record, flags, len, off0, hdr, off0 + hdr,
              decode_base64(record.type, SizeSub(len, off0 + hdr)))

BuildFlags(record, flags, len, off0) ==
    BuildHeader(record, flags, len, off0, ndef_create_rec(flags))

BuildRec(record, i, nrecords, len, off) ==
    BuildFlags(record, RecFlags(record, i, nrecords), len, off)

RECURSIVE BuildLoop(_, _, _, _, _, _, _)
RECURSIVE BuildNext(_, _, _, _, _, _, _)

\* lines 61-110
BuildLoop(record, i, nrecords, len, off, recs, out) ==
    IF i >= nrecords
    THEN [res |-> off, hi |-> off, recs |-> recs, out |-> out]
    ELSE BuildNext(record, i, nrecords, len, recs, out,
                   BuildRec(record[i + 1], i, nrecords, len, off))

BuildNext(record, i, nrecords, len, recs, out, r) ==
    IF r.next < 0 THEN BuildFail(r.hi, recs, out)
    ELSE BuildLoop(record, i + 1, nrecords, len, r.next,
                   recs \o r.hdr, out \o r.bytes)

build_ndef_msg(record, nrecords, len) ==
    BuildLoop(record, 0, nrecords, len, 0, << >>, << >>)

\* create_snep_cp: the builder runs on the frame's information field
create_snep_cp(record, nrecords, len) ==
    build_ndef_msg(record, nrecords, SizeSub(len, SizeofSnep))

(***************************************************************************)
(* nfc_recv_process_ndef_cb, the Reporter.  mem is the memory at ndef, of  *)
(* which the first len bytes are the message; offsets count from 0, and a  *)
(* byte past the end of mem reads as 0.  The result: res, 0 or -1;         *)
(* entries, what was logged for each record; hi, one more than the highest *)
(* offset read.                                                            *)
(***************************************************************************)
\* sizeof(struct ndef_rec): the flags byte and the type length byte
SizeofNdefRec == 2
\* char base64[3][512]
Base64BufSize == 512

MemAt(mem, k) == IF k < Len(mem) THEN mem[k + 1] ELSE 0

\* ndef_rec_payload_len: one byte for a short record, else four
RecPayloadLen(mem, o) ==
    IF HasBit(MemAt(mem, o), NDEF_FLAG_SR) THEN MemAt(mem, o + 2)
    ELSE MemAt(mem, o + 2) * 16777216 + MemAt(mem, o + 3) * 65536
         + MemAt(mem, o + 4) * 256 + MemAt(mem, o + 5)

\* ndef_rec_id_len: the byte after the payload length, if IL
RecIdLen(mem, o) ==
    IF ~HasBit(MemAt(mem, o), NDEF_FLAG_IL) THEN 0
    ELSE MemAt(mem, o + (IF HasBit(MemAt(mem, o), NDEF_FLAG_SR)
                         THEN 3 ELSE 6))

\* encode_base64(in, n, out, 512) of the n bytes at offset o: the text, or
\* ok |-> FALSE when the text does not fit the buffer; hi, the end of what
\* was read
ReportField(mem, o, n) ==
    IF EncodedLen(n) > Base64BufSize
    THEN [ok |-> FALSE, text |-> << >>, hi |-> o]
    ELSE [ok |-> TRUE,
          text |-> encode_base64([j \in 1 .. n |-> MemAt(mem, o + j - 1)]),
          hi |-> IF n = 0 THEN 0 ELSE o + n]

MaxOf(S) == CHOOSE x \in S : \A y \in S : y <= x

\* lines 197-212: the entry logged for the record at offset o, whose
\* header is hdr bytes, type tlen, id ilen, payload plen
ReportEntry(mem, o, hdr, tlen, ilen, plen, t, d, p) ==
    [tnf |-> MemAt(mem, o) % (NDEF_TNF_BITS + 1),
     type |-> t.text, id |-> d.text, payload |-> p.text,
     fits |-> t.ok /\ d.ok /\ p.ok,
     off |-> o, tlen |-> tlen, ilen |-> ilen, plen |-> plen,
     reclen |-> hdr + tlen + ilen + plen,
     hi |-> MaxOf({o + hdr, t.hi, d.hi, p.hi})]

ReportFields(mem, o, hdr, tlen, ilen, plen) ==
    ReportEntry(mem, o, hdr, tlen, ilen, plen,
                ReportField(mem, o + hdr, tlen),
                ReportField(mem, o + hdr + tlen, ilen),
                ReportField(mem, o + hdr + tlen + ilen, plen))

ReportRec(mem, o) ==
    ReportFields(mem, o, ndef_create_rec(MemAt(mem, o)), MemAt(mem, o + 1),
                 RecIdLen(mem, o), RecPayloadLen(mem, o))

RECURSIVE ReportLoop(_, _, _, _, _)
RECURSIVE ReportNext(_, _, _, _, _, _)

\* lines 192-221: the loop, at offset o with remain bytes left
ReportLoop(mem, o, remain, entries, hi) ==
    IF remain = 0 THEN [res |-> 0, hi |-> hi, entries |-> entries]
    ELSE IF remain < SizeofNdefRec
    THEN [res |-> -1, hi |-> hi, entries |-> entries]
    ELSE ReportNext(mem, o, remain, entries, hi, ReportRec(mem, o))

ReportNext(mem, o, remain, entries, hi, e) ==
    ReportLoop(mem, o + e.reclen, remain - e.reclen, Append(entries, e),
               IF e.hi > hi THEN e.hi ELSE hi)

nfc_recv_process_ndef_cb(mem, len) == ReportLoop(mem, 0, len, << >>, 0)

(***************************************************************************)
(* Command lexer.  A numeric token is absent (strsep returned NULL), a     *)
(* number v (what strtol/strtoul made of it), or out of the range of long  *)
(* (errno set).  A string token is absent or a text.                       *)
(***************************************************************************)
NoTok == [k |-> "none", v |-> 0]
NumTok(v) == [k |-> "num", v |-> v]
RangeTok == [k |-> "erange", v |-> 0]

NoStr == [k |-> "none", s |-> << >>]
StrTok(s) == [k |-> "str", s |-> s]

Ok(val) == [rc |-> 0, val |-> val, err |-> << >>]
Ko(msg) == [rc |-> -1, val |-> 0, err |-> << msg >>]

\* lex_token, then strtol
parse_token_l(field, tok) ==
    IF tok.k = "none" THEN Ko("no token " \o field)
    ELSE IF tok.k = "erange" THEN Ko("invalid value for token " \o field)
    ELSE Ok(tok.v)

\* lex_token, then strtoul: a negative number wraps
parse_token_ul(field, tok) ==
    IF tok.k = "none" THEN Ko("no token " \o field)
    ELSE IF tok.k = "erange" THEN Ko("invalid value for token " \o field)
    ELSE Ok(tok.v % SizeMod)

parse_token_s(field, tok, allow_empty) ==
    IF tok.k = "none" THEN [rc |-> -1, val |-> << >>,
                            err |-> << "no token " \o field >>]
    ELSE IF ~allow_empty /\ tok.s = << >>
    THEN [rc |-> -1, val |-> << >>, err |-> << "empty token " \o field >>]
    ELSE [rc |-> 0, val |-> tok.s, err |-> << >>]

SapAccepted_OffByOne(sap, can_autodetect) ==
    ~ ((sap = -1 /\ ~can_autodetect) \/ sap < -1
       \/ ~ (sap <= LLCP_NUMBER_OF_SAPS))

\* the range test of parse_sap
SapAccepted(sap, can_autodetect) ==
    ~ ((sap = -1 /\ ~can_autodetect) \/ sap < -1
       \/ ~ (sap < LLCP_NUMBER_OF_SAPS))

parse_sap(field, tok, can_autodetect) ==
    LET r == parse_token_l(field, tok) IN
    IF r.rc < 0 THEN r
    ELSE IF ~SapAccepted(r.val, can_autodetect) THEN Ko("invalid " \o field)
    ELSE r

NoRec == [flags |-> 0, tnf |-> 0, type |-> << >>, id |-> << >>,
          payload |-> << >>]

RecKo(e) == [rc |-> -1, rec |-> NoRec, err |-> e]

ParsedRec(f, t, ty, id, pl) ==
    IF f.rc < 0 THEN RecKo(f.err)
    ELSE IF OutsideFlagBits(f.val) # 0 THEN RecKo(<< "invalid NDEF flags" >>)
    ELSE IF t.rc < 0 THEN RecKo(t.err)
    ELSE IF ~ (t.val < NDEF_NUMBER_OF_TNFS) THEN RecKo(<< "invalid NDEF TNF" >>)
    ELSE IF ty.rc < 0 THEN RecKo(ty.err)
    ELSE IF id.rc < 0 THEN RecKo(id.err)
    ELSE IF pl.rc < 0 THEN RecKo(pl.err)
    ELSE [rc |-> 0,
          rec |-> [flags |-> f.val, tnf |-> t.val, type |-> ty.val,
                   id |-> id.val, payload |-> pl.val],
          err |-> << >>]

\* a record literal is [flags, tnf: numeric tokens; type, id, payload: string
\* tokens]; the first token at fault ends the parse
parse_ndef_rec(lit) ==
    ParsedRec(parse_token_ul("NDEF flags", lit.flags),
              parse_token_ul("NDEF TNF", lit.tnf),
              parse_token_s("NDEF type", lit.type, FALSE),
              parse_token_s("NDEF id", lit.id, TRUE),
              parse_token_s("NDEF payload", lit.payload, FALSE))

RECURSIVE ParseMsgLoop(_, _, _, _)
RECURSIVE ParseMsgNext(_, _, _, _, _)

ParseMsgLoop(args, nrecs, i, rec) ==
    IF i < nrecs /\ i < Len(args)
    THEN ParseMsgNext(args, nrecs, i, rec, parse_ndef_rec(args[i + 1]))
    ELSE IF i < Len(args)
    THEN [n |-> -1, rec |-> << >>, err |-> << "invalid characters near EOL" >>]
    ELSE [n |-> i, rec |-> rec, err |-> << >>]

ParseMsgNext(args, nrecs, i, rec, r) ==
    IF r.rc < 0 THEN [n |-> -1, rec |-> << >>, err |-> r.err]
    ELSE ParseMsgLoop(args, nrecs, i + 1, Append(rec, r.rec))

\* args: the record literals left on the command line
parse_ndef_msg(args, nrecs) == ParseMsgLoop(args, nrecs, 0, << >>)

parse_re_index(tok, nres) ==
    LET r == parse_token_ul("remote endpoint", tok) IN
    IF r.rc < 0 THEN r
    ELSE IF ~ (r.val < nres) THEN Ko("unknown remote endpoint")
    ELSE r

parse_nci_ntf_type(tok) ==
    LET r == parse_token_ul("discover notification type", tok) IN
    IF r.rc < 0 THEN r
    ELSE IF ~ (r.val < NUMBER_OF_NCI_NOTIFICATION_TYPES)
    THEN Ko("unknown discover notification type")
    ELSE r

RfIndexAccepted_OffByOne(rf) ==
    ~ (rf < -1 \/ rf > NUMBER_OF_SUPPORTED_NCI_RF_INTERFACES)

\* the range test of parse_rf_index
RfIndexAccepted(rf) ==
    ~ (rf < -1 \/ rf >= NUMBER_OF_SUPPORTED_NCI_RF_INTERFACES)

parse_rf_index(tok) ==
    LET r == parse_token_l("rf index", tok) IN
    IF r.rc < 0 THEN r
    ELSE IF ~RfIndexAccepted(r.val) THEN Ko("unknown rf index")
    ELSE r

parse_nci_deactivate_ntf_type(tok) ==
    LET r == parse_token_ul("deactivate notification type", tok) IN
    IF r.rc < 0 THEN r
    ELSE IF ~ (r.val < NUMBER_OF_NCI_RF_DEACT_TYPE)
    THEN Ko("unknown deactivate notification type")
    ELSE r

parse_nci_deactivate_ntf_reason(tok) ==
    LET r == parse_token_ul("deactivate notification reason", tok) IN
    IF r.rc < 0 THEN r
    ELSE IF ~ (r.val < NUMBER_OF_NCI_RF_DEACT_REASON)
    THEN Ko("unknown deactivate notification reason")
    ELSE r

(***************************************************************************)
(* Host state (nfc.h, nfc-re.h, nfc-tag.h).  Remote endpoints and RF       *)
(* interfaces are named by their index in nfc_res and nfc->rf; -1 stands   *)
(* for a NULL active_re or active_rf.                                      *)
(***************************************************************************)
VARIABLES
    last_sap,   \* per remote endpoint: [dsap, ssap] last negotiated
    active_re,  \* nfc->active_re
    active_rf,  \* nfc->active_rf
    tag,        \* per remote endpoint: the NDEF content of its tag
    crashed,    \* the process ran into undefined behaviour and stopped
    ret,        \* return value of the last command
    cmd,        \* the last command and its arguments
    log,        \* cb.log_err diagnostics of the last command
    disp,       \* dispatch sinks called by the last command, in order
    host,       \* host operations called by the last command, in order
    built,      \* result of the builder call of the last command
    pre,        \* history: the host state the last command started from
    report      \* result of the Reporter call of the last command

vars == << last_sap, active_re, active_rf, tag, crashed,
           ret, cmd, log, disp, host, built, pre, lenient, report >>

\* the shared host state
Host == [last_sap |-> last_sap, active_re |-> active_re,
         active_rf |-> active_rf, tag |-> tag]

Res == 0 .. NumRes - 1
Rfs == 0 .. NUMBER_OF_SUPPORTED_NCI_RF_INTERFACES - 1

\* nfc->rf: the protocol and mode of each RF interface
RfTable == [i \in Rfs |-> [proto |-> i + 1, mode |-> 0]]

\* nfc_res: endpoint 0 is a tag whose protocol and mode are those of the last
\* RF interface; the other endpoints are peers that no RF interface matches
ReTable == [i \in Res |->
              IF i = 0
              THEN [rfproto |-> NUMBER_OF_SUPPORTED_NCI_RF_INTERFACES,
                    mode |-> 0, hastag |-> TRUE]
              ELSE [rfproto |-> NUMBER_OF_SUPPORTED_NCI_RF_INTERFACES + i,
                    mode |-> 1, hastag |-> FALSE]]

\* the first RF interface of the given protocol and mode, or NULL
nfc_find_rf_by_protocol_and_mode(proto, mode) ==
    LET m == {i \in Rfs : RfTable[i].proto = proto /\ RfTable[i].mode = mode}
    IN  IF m = {} THEN -1 ELSE CHOOSE i \in m : \A j \in m : i <= j

\* nfc_clear_re: the endpoint's negotiated link-layer state is reset
nfc_clear_re(sap, re) ==
    [sap EXCEPT ![re] = [dsap |-> LLCP_SAP_LM, ssap |-> LLCP_SAP_LM]]

HostCall(fn, re, a, b) == [fn |-> fn, re |-> re, a |-> a, b |-> b]

NoBuild == [res |-> -1, hi |-> 0, recs |-> << >>, out |-> << >>]

NoReport == [res |-> -1, hi |-> 0, entries |-> << >>]

NoCmd == [fam |-> "", op |-> "", a |-> NoTok, b |-> NoTok, m |-> << >>,
          len |-> 0, ok |-> TRUE]

Cmd(fam, op, a, b, m, ok) ==
    [fam |-> fam, op |-> op, a |-> a, b |-> b, m |-> m, len |-> 0, ok |-> ok]

(***************************************************************************)
(* What a command leaves behind: its return value, its diagnostics, the    *)
(* sinks and host operations it called, the builder's result.              *)
(***************************************************************************)
\* the front end is between two command lines
Idle == ~crashed /\ cmd.fam = ""

\* the dispatcher has returned and the front end reads the next line
NextLine ==
    /\ ~crashed
    /\ cmd.fam # ""
    /\ ret' = 0
    /\ cmd' = NoCmd
    /\ log' = << >>
    /\ disp' = << >>
    /\ host' = << >>
    /\ built' = NoBuild
    /\ pre' = Host
    /\ report' = NoReport
    /\ UNCHANGED << last_sap, active_re, active_rf, tag, crashed, lenient >>

\* a command that ran the Reporter, with result r
Reported(c, res, err, sinks, calls, b, r) ==
    /\ ret' = IF res < 0 THEN -1 ELSE 0
    /\ cmd' = c
    /\ log' = err
    /\ disp' = sinks
    /\ host' = calls
    /\ built' = b
    /\ pre' = Host
    /\ report' = r
    /\ UNCHANGED lenient

Outcome(c, res, err, sinks, calls, b) ==
    Reported(c, res, err, sinks, calls, b, NoReport)

\* a command that fails before any dispatch
Reject(c, err) ==
    /\ Outcome(c, -1, err, << >>, << >>, NoBuild)
    /\ UNCHANGED << last_sap, active_re, active_rf, tag, crashed >>

(***************************************************************************)
(* NCI notification builders.  Each yields res, the diagnostics, the host  *)
(* calls made and, where it changes it, the host state after the call.     *)
(***************************************************************************)
\* lines 602-615: the active RF interface after resolution, and whether the
\* auto-selection found none
ResolveActiveRf(cur, rf, re) ==
    IF cur # -1 THEN [rf |-> cur, ko |-> FALSE]
    ELSE IF rf = -1
    THEN [rf |-> nfc_find_rf_by_protocol_and_mode(ReTable[re].rfproto,
                                                  ReTable[re].mode),
          ko |-> nfc_find_rf_by_protocol_and_mode(ReTable[re].rfproto,
                                                  ReTable[re].mode) = -1]
    ELSE [rf |-> rf, ko |-> FALSE]

\* lines 609-622: r is the resolution; sap the endpoints' state once the
\* target endpoint re is cleared
ActivatedNtf(re, sap, r, ok) ==
    IF r.ko
    THEN [res |-> -1, log |-> << "no active rf interface" >>,
          host |-> << >>, sap |-> sap, rf |-> r.rf]
    ELSE [res  |-> IF ok THEN 1 ELSE -1,
          log  |-> IF ok THEN << >> ELSE << "rf_intf_activated_ntf failed" >>,
          host |-> << HostCall("nfc_create_rf_intf_activated_ntf",
                               re, r.rf, 0) >>,
          sap  |-> sap, rf |-> r.rf]

\* lines 601-608
ActivateRe(re, param_rf, ok) ==
    ActivatedNtf(re, nfc_clear_re(last_sap, re),
                 ResolveActiveRf(active_rf, param_rf, re), ok)

\* param_re, param_rf: the fields of nfc_ntf_param; ok: whether the host's
\* nfc_create_rf_intf_activated_ntf succeeds
nfc_rf_intf_activated_ntf_cb(param_re, param_rf, ok) ==
    IF param_re = -1 /\ active_re = -1
    THEN [res |-> -1, log |-> << "no active remote-endpoint" >>,
          host |-> << >>, sap |-> last_sap, rf |-> active_rf]
    ELSE ActivateRe(IF param_re = -1 THEN active_re ELSE param_re,
                    param_rf, ok)

nfc_rf_discovery_ntf_cb(param_re, ntype, ok) ==
    [res  |-> IF ok THEN 1 ELSE -1,
     log  |-> IF ok THEN << >> ELSE << "rf_discover_ntf failed" >>,
     host |-> << HostCall("nfc_create_rf_discovery_ntf", param_re, ntype, 0) >>]

nfc_rf_intf_deactivate_ntf_cb(dtype, dreason, ok) ==
    [res  |-> IF ok THEN 1 ELSE -1,
     log  |-> IF ok THEN << >> ELSE << "rf_intf_deactivate_ntf failed" >>,
     host |-> << HostCall("nfc_create_deactivate_ntf", -1, dtype, dreason) >>]

(***************************************************************************)
(* nfc_cmd_nci                                                             *)
(***************************************************************************)
\* cb.send_ntf ran a builder that leaves the host state alone, with result r
NtfSent(c, r) ==
    /\ Outcome(c, r.res, r.log, << "send_ntf" >>, r.host, NoBuild)
    /\ UNCHANGED << last_sap, active_re, active_rf, tag, crashed >>

\* cb.send_ntf ran nfc_rf_intf_activated_ntf_cb, with result r
ActivatedSent(c, r) ==
    /\ Outcome(c, r.res, r.log, << "send_ntf" >>, r.host, NoBuild)
    /\ last_sap' = r.sap
    /\ active_rf' = r.rf
    /\ UNCHANGED << active_re, tag, crashed >>

NciRfDiscoverParsed(c, i, t, ok) ==
    IF i.rc < 0 THEN Reject(c, i.err)
    ELSE IF t.rc < 0 THEN Reject(c, t.err)
    ELSE NtfSent(c, nfc_rf_discovery_ntf_cb(i.val, t.val, ok))

\* nci rf_discover_ntf <re-index> <ntf-type>
NciRfDiscover(a, b, ok) ==
    /\ Idle
    /\ NciRfDiscoverParsed(Cmd("nci", "rf_discover_ntf", a, b, << >>, ok),
                           parse_re_index(a, NumRes),
                           parse_nci_ntf_type(b), ok)

NciRfIntfActivatedParsed(c, i, f, ok) ==
    IF i.rc < 0 THEN Reject(c, i.err)
    ELSE IF f.rc < 0 THEN Reject(c, f.err)
    ELSE ActivatedSent(c, nfc_rf_intf_activated_ntf_cb(i.val, f.val, ok))

\* nci rf_intf_activated_ntf [<re-index> [<rf-index>]]
NciRfIntfActivated(a, b, ok) ==
    /\ Idle
    /\ NciRfIntfActivatedParsed(
           Cmd("nci", "rf_intf_activated_ntf", a, b, << >>, ok),
           IF a.k = "none" THEN Ok(-1) ELSE parse_re_index(a, NumRes),
           IF a.k = "none" \/ b.k = "none" THEN Ok(-1) ELSE parse_rf_index(b),
           ok)

NciRfIntfDeactivateParsed(c, t, n, ok) ==
    IF t.rc < 0 THEN Reject(c, t.err)
    ELSE IF n.rc < 0 THEN Reject(c, n.err)
    ELSE NtfSent(c, nfc_rf_intf_deactivate_ntf_cb(t.val, n.val, ok))

\* nci rf_intf_deactivate_ntf [<deact-type> <deact-reason>]
NciRfIntfDeactivate(a, b, ok) ==
    /\ Idle
    /\ NciRfIntfDeactivateParsed(
           Cmd("nci", "rf_intf_deactivate_ntf", a, b, << >>, ok),
           IF a.k = "none" THEN Ok(NCI_RF_DEACT_DISCOVERY)
           ELSE parse_nci_deactivate_ntf_type(a),
           IF a.k = "none" THEN Ok(NCI_RF_DEACT_RF_LINK_LOSS)
           ELSE parse_nci_deactivate_ntf_reason(b),
           ok)

(***************************************************************************)
(* SNEP and LLCP callbacks.  ok: whether the host's transport operation    *)
(* succeeds once it is reached.                                            *)
(***************************************************************************)
\* lines 165-168, 240-243, 756-759: a pair of SAPs as handed to the host
ResolveSaps(dsap, ssap, re) ==
    IF dsap < 0 /\ ssap < 0
    THEN [dsap |-> last_sap[re].dsap, ssap |-> last_sap[re].ssap]
    ELSE [dsap |-> dsap, ssap |-> ssap]

\* nfc_re_send_snep_put: the host had create_snep_cp fill one frame, with
\* result b, and transmits the frame
SnepPutSent(re, p, b, ok) ==
    [res   |-> IF b.res < 0 \/ ~ok THEN -1 ELSE b.res + SizeofSnep,
     log   |-> IF b.res < 0 \/ ~ok THEN << "'snep put' failed" >> ELSE << >>,
     host  |-> << HostCall("nfc_re_send_snep_put", re, p.dsap, p.ssap) >>,
     built |-> b,
     len   |-> SizeSub(SnepFrameLen, SizeofSnep)]

nfc_send_snep_put_cb(dsap, ssap, record, nrecords, ok) ==
    IF active_re = -1
    THEN [res |-> -1, log |-> << "no active remote endpoint" >>,
          host |-> << >>, built |-> NoBuild, len |-> 0]
    ELSE SnepPutSent(active_re, ResolveSaps(dsap, ssap, active_re),
                     create_snep_cp(record, nrecords, SnepFrameLen), ok)

SnepPutReceived(re, p, ok) ==
    [res  |-> IF ok THEN 0 ELSE -1,
     log  |-> IF ok THEN << >> ELSE << "'snep put' failed" >>,
     host |-> << HostCall("nfc_re_recv_snep_put", re, p.dsap, p.ssap) >>]

nfc_recv_snep_put_cb(dsap, ssap, ok) ==
    IF active_re = -1
    THEN [res |-> -1, log |-> << "no active remote endpoint" >>,
          host |-> << >>]
    ELSE SnepPutReceived(active_re, ResolveSaps(dsap, ssap, active_re), ok)

\* lines 760-773
LlcpConnectResolved(re, p, ok) ==
    IF p.dsap = 0
    THEN [res |-> -1, log |-> << "DSAP is 0" >>, host |-> << >>]
    ELSE IF p.ssap = 0
    THEN [res |-> -1, log |-> << "SSAP is 0" >>, host |-> << >>]
    ELSE [res  |-> IF ok THEN 0 ELSE -1,
          log  |-> IF ok THEN << >> ELSE << "LLCP connect failed" >>,
          host |-> << HostCall("nfc_re_send_llcp_connect", re,
                               p.dsap, p.ssap) >>]

nfc_llcp_connect_cb(dsap, ssap, ok) ==
    IF active_re = -1
    THEN [res |-> -1, log |-> << "no active remote endpoint" >>,
          host |-> << >>]
    ELSE LlcpConnectResolved(active_re, ResolveSaps(dsap, ssap, active_re), ok)

(***************************************************************************)
(* nfc_cmd_snep, nfc_cmd_llcp                                              *)
(***************************************************************************)
\* the sinks exchanged
SnepSinks_Swapped(n) == IF n # 0 THEN << "recv_dta" >> ELSE << "send_dta" >>

\* lines 534-546: the sink nfc_cmd_snep calls for a message of n records
SnepSinks(n) == IF n # 0 THEN << "send_dta" >> ELSE << "recv_dta" >>

\* a write past the end of the buffer is undefined: the process may stop
MayCrash(b, len) == crashed' \in (IF b.hi > len THEN BOOLEAN ELSE {FALSE})

\* cb.send_dta ran nfc_send_snep_put_cb, with result r
SnepSendDone(c, n, r) ==
    /\ Outcome([c EXCEPT !.len = r.len], r.res, r.log, SnepSinks(n), r.host,
               r.built)
    /\ MayCrash(r.built, r.len)
    /\ UNCHANGED << last_sap, active_re, active_rf, tag >>

\* cb.recv_dta ran nfc_recv_snep_put_cb, cb.send_dta nfc_llcp_connect_cb
DtaDone(c, sinks, r) ==
    /\ Outcome(c, r.res, r.log, sinks, r.host, NoBuild)
    /\ UNCHANGED << last_sap, active_re, active_rf, tag, crashed >>

SnepPutParsed(c, d, s, n, ok) ==
    IF d.rc < 0 THEN Reject(c, d.err)
    ELSE IF s.rc < 0 THEN Reject(c, s.err)
    ELSE IF n.n < 0 THEN Reject(c, n.err)
    ELSE IF n.n # 0
    THEN SnepSendDone(c, n.n,
                      nfc_send_snep_put_cb(d.val, s.val, n.rec, n.n, ok))
    ELSE DtaDone(c, SnepSinks(n.n), nfc_recv_snep_put_cb(d.val, s.val, ok))

\* snep put <dsap> <ssap> [ [flags,tnf,type,id,payload] ... ]
SnepPut(a, b, m, ok) ==
    /\ Idle
    /\ SnepPutParsed(Cmd("snep", "put", a, b, m, ok),
                     parse_sap("DSAP", a, TRUE), parse_sap("SSAP", b, TRUE),
                     parse_ndef_msg(m, 4), ok)

LlcpConnectParsed(c, d, s, ok) ==
    IF d.rc < 0 THEN Reject(c, d.err)
    ELSE IF s.rc < 0 THEN Reject(c, s.err)
    ELSE DtaDone(c, << "send_dta" >>, nfc_llcp_connect_cb(d.val, s.val, ok))

\* llcp connect <dsap> <ssap>
LlcpConnect(a, b, ok) ==
    /\ Idle
    /\ LlcpConnectParsed(Cmd("llcp", "connect", a, b, << >>, ok),
                         parse_sap("DSAP", a, TRUE),
                         parse_sap("SSAP", b, TRUE), ok)

(***************************************************************************)
(* nfc_cmd_tag                                                             *)
(***************************************************************************)
\* nfc_tag_set_data: the tag takes the first len bytes as its content, or
\* the host reports a failure
nfc_tag_set_data(len, ok) == IF ok THEN 0 ELSE -1

\* line 858: the message b was built and is handed to the tag of endpoint re
TagInstall(c, re, b, r) ==
    /\ Outcome(c, r, << >>, << >>,
               << HostCall("nfc_tag_set_data", re, b.res, 0) >>, b)
    /\ tag' = IF r < 0 THEN tag ELSE [tag EXCEPT ![re] = b.out]
    /\ MayCrash(b, MAXIMUM_SUPPORTED_TAG_SIZE)
    /\ UNCHANGED << last_sap, active_re, active_rf >>

\* lines 853-860
TagBuilt(c, re, b, ok) ==
    IF b.res < 0
    THEN /\ Outcome(c, -1, << >>, << >>, << >>, b)
         /\ MayCrash(b, MAXIMUM_SUPPORTED_TAG_SIZE)
         /\ UNCHANGED << last_sap, active_re, active_rf, tag >>
    ELSE TagInstall(c, re, b, nfc_tag_set_data(b.res, ok))

\* lines 838-853
TagSetParsed(c, i, n, ok) ==
    IF i.rc < 0 THEN Reject(c, i.err)
    ELSE IF ~ReTable[i.val].hastag
    THEN Reject(c, << "remote endpoint is not a tag" >>)
    ELSE IF n.n < 0 THEN Reject(c, n.err)
    ELSE TagBuilt(c, i.val,
                  build_ndef_msg(n.rec, n.n, MAXIMUM_SUPPORTED_TAG_SIZE), ok)

\* tag set <re-index> [ [flags,tnf,type,id,payload] ... ]
TagSet(a, m, ok) ==
    /\ Idle
    /\ TagSetParsed([Cmd("tag", "set", a, NoTok, m, ok)
                       EXCEPT !.len = MAXIMUM_SUPPORTED_TAG_SIZE],
                    parse_re_index(a, NumRes), parse_ndef_msg(m, 4), ok)

\* the host is handed re->tag, which is NULL for an endpoint that is no
\* tag: undefined, the process may stop
TagResetParsed(c, fn, i, ok) ==
    IF i.rc < 0 THEN Reject(c, i.err)
    ELSE /\ Outcome(c, IF ~ReTable[i.val].hastag \/ ~ok THEN -1 ELSE 0,
                    << >>, << >>, << HostCall(fn, i.val, 0, 0) >>, NoBuild)
         /\ tag' = IF ~ReTable[i.val].hastag \/ ~ok THEN tag
                   ELSE [tag EXCEPT ![i.val] = << >>]
         /\ crashed' \in (IF ReTable[i.val].hastag THEN {FALSE} ELSE BOOLEAN)
         /\ UNCHANGED << last_sap, active_re, active_rf >>

\* tag clear <re-index>
TagClear(a, ok) ==
    /\ Idle
    /\ TagResetParsed(Cmd("tag", "clear", a, NoTok, << >>, ok),
                      "nfc_tag_set_data", parse_re_index(a, NumRes), ok)

\* tag format <re-index>
TagFormat(a, ok) ==
    /\ Idle
    /\ TagResetParsed(Cmd("tag", "format", a, NoTok, << >>, ok),
                      "nfc_tag_format", parse_re_index(a, NumRes), ok)

(***************************************************************************)
(* Pure functions applied to drawn inputs: the range test of parse_sap,    *)
(* and the parser and builder as tag set and create_snep_cp chain them,    *)
(* with a destination of any capacity.                                     *)
(***************************************************************************)
FnDone(c, res, err, b) ==
    /\ Outcome(c, res, err, << >>, << >>, b)
    /\ UNCHANGED << last_sap, active_re, active_rf, tag, crashed >>

ParseSapApplied(tok, can_autodetect, r) ==
    FnDone([Cmd("fn", "parse_sap", tok, NoTok, << >>, can_autodetect)
              EXCEPT !.len = r.val],
           r.rc, r.err, NoBuild)

ApplyParseSap(tok, can_autodetect) ==
    /\ Idle
    /\ ParseSapApplied(tok, can_autodetect,
                       parse_sap("SAP", tok, can_autodetect))

BuildApplied(fn, m, len, n, b) ==
    FnDone([Cmd("fn", fn, NoTok, NoTok, m, n.n >= 0) EXCEPT !.len = len],
           b.res, n.err, b)

BuildParsed(m, len, n) ==
    BuildApplied("build_ndef_msg", m, len, n,
                 IF n.n < 0 THEN NoBuild
                 ELSE build_ndef_msg(n.rec, n.n, len))

ApplyBuild(m, len) ==
    /\ Idle
    /\ BuildParsed(m, len, parse_ndef_msg(m, 4))

SnepCpParsed(m, len, n) ==
    BuildApplied("create_snep_cp", m, len, n,
                 IF n.n < 0 THEN NoBuild
                 ELSE create_snep_cp(n.rec, n.n, len))

ApplyCreateSnepCp(m, len) ==
    /\ Idle
    /\ SnepCpParsed(m, len, parse_ndef_msg(m, 4))

\* the Reporter is handed the memory mem, of which len bytes are the message
ReportApplied(mem, len, r) ==
    /\ Reported([Cmd("fn", "nfc_recv_process_ndef_cb", NoTok, NoTok, << >>,
                     TRUE) EXCEPT !.len = len],
                r.res, << >>, << >>, << >>,
                [res |-> len, hi |-> 0, recs |-> << >>, out |-> mem], r)
    /\ crashed' \in (IF r.hi > len THEN BOOLEAN ELSE {FALSE})
    /\ UNCHANGED << last_sap, active_re, active_rf, tag >>

ApplyReport(mem, len) ==
    /\ Idle
    /\ ReportApplied(mem, len, nfc_recv_process_ndef_cb(mem, len))

\* the message b built from the records m is handed to the Reporter
RoundTripReported(m, len, n, b, r) ==
    /\ Reported([Cmd("fn", "round_trip", NoTok, NoTok, m, n.n >= 0)
                   EXCEPT !.len = len],
                IF b.res < 0 THEN -1 ELSE r.res, n.err, << >>, << >>, b, r)
    /\ UNCHANGED << last_sap, active_re, active_rf, tag, crashed >>

RoundTripBuilt(m, len, n, b) ==
    RoundTripReported(m, len, n, b,
                      IF b.res < 0 THEN NoReport
                      ELSE nfc_recv_process_ndef_cb(b.out, b.res))

RoundTripParsed(m, len, n) ==
    RoundTripBuilt(m, len, n,
                   IF n.n < 0 THEN NoBuild
                   ELSE build_ndef_msg(n.rec, n.n, len))

\* parse_ndef_msg, build_ndef_msg into len bytes, nfc_recv_process_ndef_cb
\* over what was built
RoundTrip(m, len) ==
    /\ Idle
    /\ RoundTripParsed(m, len, parse_ndef_msg(m, 4))

(***************************************************************************)
(* Inputs                                                                  *)
(***************************************************************************)
TextA == << 16, 16 >>            \* "QQ": the byte 65
TextABC == << 16, 20, 9, 3 >>    \* "QUJD": 65 66 67
TextDEF == << 17, 4, 21, 6 >>    \* "REVG": 68 69 70
TextOne == << 16 >>              \* "Q": one character, no whole byte
TextBad == << BadChar >>
TextLong == [i \in 1 .. 4 * LongGroups |-> 0]

Lit(flags, tnf, type, id, payload) ==
    [flags |-> NumTok(flags), tnf |-> NumTok(tnf), type |-> StrTok(type),
     id |-> StrTok(id), payload |-> StrTok(payload)]

LitPlain == Lit(0, 1, TextABC, << >>, TextDEF)
LitShort == Lit(NDEF_FLAG_SR, 1, TextA, << >>, TextA)
LitShortId == Lit(NDEF_FLAG_SR, 2, TextA, TextA, TextABC)
LitShort3 == Lit(NDEF_FLAG_SR, 1, TextA, << >>, TextABC)
LitChunk == Lit(NDEF_FLAG_CF, 1, TextA, TextABC, TextA)
LitLong == Lit(0, 1, TextA, << >>, TextLong)
LitShortLong == Lit(NDEF_FLAG_SR, 1, TextA, << >>, TextLong)
LitBadType == Lit(0, 1, TextBad, << >>, TextA)
LitLoneId == Lit(NDEF_FLAG_SR, 1, TextA, TextOne, TextA)
LitBadPayload == Lit(NDEF_FLAG_SR, 1, TextA, << >>, TextBad)
LitMB == Lit(NDEF_FLAG_MB, 1, TextA, << >>, TextA)
LitME == Lit(NDEF_FLAG_ME + NDEF_FLAG_SR, 1, TextA, << >>, TextA)
LitIL == Lit(NDEF_FLAG_IL, 1, TextA, << >>, TextA)
LitTnfBits == Lit(1, 1, TextA, << >>, TextA)
LitBadTnf == Lit(0, NDEF_NUMBER_OF_TNFS, TextA, << >>, TextA)
LitNoPayload == [Lit(0, 1, TextA, << >>, TextA) EXCEPT !.payload = NoStr]
LitEmptyType == Lit(0, 1, << >>, << >>, TextA)

GoodLits == {LitPlain, LitShort, LitShortId, LitChunk}
ReservedLits == {LitMB, LitME, LitIL, LitTnfBits}
BadLits == {LitBadType, LitLoneId, LitBadPayload, LitShortLong}

SeqsOf(S, lo, hi) == UNION {[1 .. n -> S] : n \in lo .. hi}

\* messages for the builder: every list of up to two literals, and longer
\* lists of short records with one offending record at any place
BuildMsgs ==
    SeqsOf(GoodLits \cup ReservedLits \cup (BadLits \ {LitShortLong})
             \cup {LitBadTnf, LitNoPayload, LitEmptyType}, 0, 2)
    \cup SeqsOf({LitShort, LitShortId}, 3, MaxRecsIn)
    \cup {[k \in 1 .. n |-> IF k = j THEN bad ELSE LitShort] :
            n \in 3 .. 4, j \in 1 .. 4,
            bad \in {LitIL, LitBadPayload}}

\* messages with a payload of more than 255 bytes, at any place
LongMsgs ==
    {[k \in 1 .. n |-> IF k = j THEN long ELSE LitShort] :
       n \in 1 .. 4, j \in 1 .. 4, long \in {LitLong, LitShortLong}}

\* the builder's inputs: a message and the capacity of its destination
BuildInputs ==
    (BuildMsgs \X (0 .. MaxLen))
    \cup (LongMsgs \X {MAXIMUM_SUPPORTED_TAG_SIZE})

SapValues == -3 .. LLCP_NUMBER_OF_SAPS + 2

(***************************************************************************)
(* Specifications                                                          *)
(***************************************************************************)
Quiet ==
    /\ crashed = FALSE
    /\ ret = 0
    /\ cmd = NoCmd
    /\ log = << >>
    /\ disp = << >>
    /\ host = << >>
    /\ built = NoBuild
    /\ pre = Host
    /\ report = NoReport

InitFn ==
    /\ last_sap = [i \in Res |-> [dsap |-> 0, ssap |-> 0]]
    /\ active_re = -1
    /\ active_rf = -1
    /\ tag = [i \in Res |-> << >>]
    /\ lenient \in BOOLEAN
    /\ Quiet

NextFn ==
    \/ Idle /\ \E v \in SapValues, can \in BOOLEAN :
                  ApplyParseSap(NumTok(v), can)
    \/ Idle /\ \E tok \in {NoTok, RangeTok}, can \in BOOLEAN :
                  ApplyParseSap(tok, can)
    \/ Idle /\ \E in \in BuildInputs : ApplyBuild(in[1], in[2])
    \/ Idle /\ \E in \in BuildInputs : ApplyCreateSnepCp(in[1], in[2])

SpecFn == InitFn /\ [][NextFn]_vars

\* the Reporter: on the messages the builder makes, and on any bytes
\* up to MaxBytes bytes of memory, of bytes that matter to the Reporter:
\* small lengths, and flag bytes with and without SR and IL
MaxBytes == 5
ByteValues == {0, 1, 2, 3, NDEF_FLAG_SR + 1, NDEF_FLAG_SR + NDEF_FLAG_IL + 1}
Memories == SeqsOf(ByteValues, 0, MaxBytes)

LitLongType == Lit(0, 1, TextLong, << >>, TextA)
LitLongId == Lit(NDEF_FLAG_SR, 1, TextA, TextLong, TextA)

RoundTripMsgs ==
    SeqsOf(GoodLits \cup {LitLoneId, LitBadTnf, LitBadPayload, LitEmptyType},
           0, 2)
    \cup SeqsOf({LitShort, LitShortId}, 3, MaxRecsIn)
    \cup {[k \in 1 .. n |-> IF k = j THEN long ELSE LitShort] :
            n \in 1 .. 2, j \in 1 .. 2,
            long \in {LitLong, LitLongType, LitLongId}}

InitRpt ==
    /\ last_sap = [i \in Res |-> [dsap |-> 0, ssap |-> 0]]
    /\ active_re = -1
    /\ active_rf = -1
    /\ tag = [i \in Res |-> << >>]
    /\ lenient \in BOOLEAN
    /\ Quiet

NextRpt ==
    \/ Idle /\ \E mem \in Memories : \E len \in 0 .. Len(mem) :
                  ApplyReport(mem, len)
    \/ Idle /\ \E m \in RoundTripMsgs :
                  RoundTrip(m, MAXIMUM_SUPPORTED_TAG_SIZE)

SpecRpt == InitRpt /\ [][NextRpt]_vars

(***************************************************************************)
(* The command specifications: one per family of commands, each from every *)
(* host state of its bounds.                                               *)
(***************************************************************************)
SapStates == {[dsap |-> 0, ssap |-> 0], [dsap |-> 4, ssap |-> 32],
              [dsap |-> 0, ssap |-> 32]}

ReToks == {NoTok, RangeTok} \cup {NumTok(v) : v \in -1 .. NumRes}
NtfTypeToks == {NoTok} \cup {NumTok(v) : v \in 0 .. NUMBER_OF_NCI_NOTIFICATION_TYPES}
RfToks == {NoTok, RangeTok}
          \cup {NumTok(v) : v \in -2 .. NUMBER_OF_SUPPORTED_NCI_RF_INTERFACES}
DeactToks == {NoTok} \cup {NumTok(v) : v \in 0 .. NUMBER_OF_NCI_RF_DEACT_TYPE}
SapToks == {NoTok, RangeTok}
           \cup {NumTok(v) : v \in {-2, -1, 0, 1, 5, LLCP_NUMBER_OF_SAPS - 1,
                                    LLCP_NUMBER_OF_SAPS}}

\* nci commands
Init ==
    /\ last_sap \in [Res -> SapStates]
    /\ active_re \in {-1} \cup Res
    /\ active_rf \in {-1} \cup Rfs
    /\ tag = [i \in Res |-> << >>]
    /\ lenient = FALSE
    /\ Quiet

Next ==
    \/ \E a \in ReToks, b \in NtfTypeToks, ok \in BOOLEAN :
          NciRfDiscover(a, b, ok)
    \/ \E a \in ReToks, b \in RfToks, ok \in BOOLEAN :
          NciRfIntfActivated(a, b, ok)
    \/ \E a \in DeactToks, b \in DeactToks, ok \in BOOLEAN :
          NciRfIntfDeactivate(a, b, ok)
    \/ NextLine

Spec == Init /\ [][Next]_vars

\* snep and llcp commands
SnepMsgs ==
    SeqsOf({LitPlain, LitShort, LitShort3}, 0, 3)
    \cup SeqsOf({LitShort}, 4, MaxRecsIn)
    \cup {<< LitIL >>, << LitShort, LitMB >>, << LitBadTnf >>,
          << LitShort, LitBadPayload >>, << LitNoPayload >>}

SnepInputs ==
    (SapToks \X SapToks \X {<< >>, << LitShort >>})
    \cup ({NumTok(5)} \X {NumTok(-1), NumTok(5)} \X SnepMsgs)

InitSap ==
    /\ last_sap \in [Res -> SapStates]
    /\ active_re \in {-1} \cup Res
    /\ active_rf = -1
    /\ tag = [i \in Res |-> << >>]
    /\ lenient \in BOOLEAN
    /\ Quiet

NextSap ==
    \/ Idle /\ \E in \in SnepInputs, ok \in BOOLEAN :
                  SnepPut(in[1], in[2], in[3], ok)
    \/ \E a \in SapToks, b \in SapToks, ok \in BOOLEAN : LlcpConnect(a, b, ok)
    \/ NextLine

SpecSap == InitSap /\ [][NextSap]_vars

\* tag commands
TagMsgs ==
    SeqsOf({LitPlain, LitShortId}, 0, 2)
    \cup SeqsOf({LitShort}, 4, MaxRecsIn)
    \cup {[k \in 1 .. 2 |-> IF k = j THEN bad ELSE LitShort] :
            j \in 1 .. 2,
            bad \in ReservedLits \cup BadLits \cup {LitLong, LitBadTnf}}

TagInputs ==
    (ReToks \X {<< >>, << LitPlain >>, << LitIL >>})
    \cup ({NumTok(0)} \X TagMsgs)

InitTag ==
    /\ last_sap = [i \in Res |-> [dsap |-> 4, ssap |-> 32]]
    /\ active_re \in {-1} \cup Res
    /\ active_rf = -1
    /\ tag = [i \in Res |-> << >>]
    /\ lenient \in BOOLEAN
    /\ Quiet

NextTag ==
    \/ Idle /\ \E in \in TagInputs, ok \in BOOLEAN : TagSet(in[1], in[2], ok)
    \/ \E a \in ReToks, ok \in BOOLEAN : TagClear(a, ok)
    \/ \E a \in ReToks, ok \in BOOLEAN : TagFormat(a, ok)
    \/ NextLine

SpecTag == InitTag /\ [][NextTag]_vars

(***************************************************************************)
(* The dispatchers: each takes the operation keyword off the line and runs *)
(* the branch of that operation.                                           *)
(***************************************************************************)
\* lines 547-550, 726-729, 806-809: the else branch of the keyword tests
InvalidOperation(fam, op, ok) ==
    /\ Idle
    /\ Reject(Cmd(fam, op, NoTok, NoTok, << >>, ok),
              << "invalid operation" >>)

\* lines 829-889: nfc_cmd_tag has no else branch, and returns 0 after the
\* keyword tests
NoTagOperation(op, ok) ==
    /\ Idle
    /\ Outcome(Cmd("tag", op, NoTok, NoTok, << >>, ok), 0, << >>, << >>,
               << >>, NoBuild)
    /\ UNCHANGED << last_sap, active_re, active_rf, tag, crashed >>

nfc_cmd_snep(op, a, b, m, ok) ==
    IF op = "put" THEN SnepPut(a, b, m, ok)
    ELSE InvalidOperation("snep", op, ok)

nfc_cmd_nci(op, a, b, ok) ==
    IF op = "rf_discover_ntf" THEN NciRfDiscover(a, b, ok)
    ELSE IF op = "rf_intf_activated_ntf" THEN NciRfIntfActivated(a, b, ok)
    ELSE IF op = "rf_intf_deactivate_ntf" THEN NciRfIntfDeactivate(a, b, ok)
    ELSE InvalidOperation("nci", op, ok)

nfc_cmd_llcp(op, a, b, ok) ==
    IF op = "connect" THEN LlcpConnect(a, b, ok)
    ELSE InvalidOperation("llcp", op, ok)

nfc_cmd_tag(op, a, m, ok) ==
    IF op = "set" THEN TagSet(a, m, ok)
    ELSE IF op = "clear" THEN TagClear(a, ok)
    ELSE IF op = "format" THEN TagFormat(a, ok)
    ELSE NoTagOperation(op, ok)

\* the keywords tried: those of the four dispatchers, one in another case,
\* one that none knows, and the empty one
OpWords ==
    {"put", "connect", "set", "clear", "format", "rf_discover_ntf",
     "rf_intf_activated_ntf", "rf_intf_deactivate_ntf", "SET", "get", ""}

OpToks == {NoTok, NumTok(0), NumTok(1), NumTok(5)}
OpMsgs == {<< >>, << LitPlain >>, << LitShort, LitShortId >>}

InitOp ==
    /\ last_sap \in [Res -> SapStates]
    /\ active_re \in {-1} \cup Res
    /\ active_rf \in {-1} \cup Rfs
    /\ tag = [i \in Res |-> << >>]
    /\ lenient = FALSE
    /\ Quiet

NextOp ==
    \/ Idle /\ \E op \in OpWords, a \in OpToks, b \in OpToks, m \in OpMsgs,
                  ok \in BOOLEAN : nfc_cmd_snep(op, a, b, m, ok)
    \/ Idle /\ \E op \in OpWords, a \in OpToks, b \in OpToks,
                  ok \in BOOLEAN : nfc_cmd_nci(op, a, b, ok)
    \/ Idle /\ \E op \in OpWords, a \in OpToks, b \in OpToks,
                  ok \in BOOLEAN : nfc_cmd_llcp(op, a, b, ok)
    \/ Idle /\ \E op \in OpWords, a \in OpToks, m \in OpMsgs,
                  ok \in BOOLEAN : nfc_cmd_tag(op, a, m, ok)
    \/ NextLine

SpecOp == InitOp /\ [][NextOp]_vars

(***************************************************************************)
(* Properties                                                              *)
(***************************************************************************)
\* a command has run and the dispatcher has its return value
Ran(fam, op) == ~crashed /\ cmd.fam = fam /\ cmd.op = op

\* C1: a command that returns failure leaves the shared host state (every
\* endpoint's negotiated SAPs, the active endpoint and RF interface, every
\* tag's content) as it was before the command.
C1_FailureCommitsNothing ==
    (~crashed /\ cmd.fam # "" /\ ret = -1) => Host = pre

\* the RF-interface table entries of the endpoint's protocol and mode
MatchingRfs(re) ==
    {i \in Rfs : /\ RfTable[i].proto = ReTable[re].rfproto
                 /\ RfTable[i].mode = ReTable[re].mode}

\* the endpoint rf_intf_activated_ntf is about: the one given, or the
\* active one; -1 when the command has none
ActivatedTarget ==
    IF cmd.a.k = "num" THEN (IF cmd.a.v \in Res THEN cmd.a.v ELSE -1)
    ELSE IF cmd.a.k = "none" THEN pre.active_re
    ELSE -1

\* rf_intf_activated_ntf has run from a state with no active RF interface,
\* with no RF index given, for an endpoint that exists
AutoSelected ==
    /\ Ran("nci", "rf_intf_activated_ntf")
    /\ pre.active_rf = -1
    /\ cmd.b = NoTok
    /\ ActivatedTarget # -1

\* C2: rf_intf_activated_ntf with no active RF interface and no RF index:
\* when an entry of the RF-interface table matches the endpoint's protocol
\* and mode, that entry is active afterwards and the notification is built
\* for it; when none matches, the command fails and no interface is active.
\* The active interface is always none or an entry of the table.
C2_RfAutoSelect ==
    /\ active_rf \in {-1} \cup Rfs
    /\ AutoSelected =>
         IF MatchingRfs(ActivatedTarget) # {}
         THEN /\ active_rf \in MatchingRfs(ActivatedTarget)
              /\ host = << HostCall("nfc_create_rf_intf_activated_ntf",
                                    ActivatedTarget, active_rf, 0) >>
         ELSE ret = -1 /\ active_rf = -1

\* the endpoint matching the last RF interface was activated by
\* auto-selection
C2_Witness ==
    /\ AutoSelected
    /\ MatchingRfs(ActivatedTarget)
         = {NUMBER_OF_SUPPORTED_NCI_RF_INTERFACES - 1}
    /\ active_rf = NUMBER_OF_SUPPORTED_NCI_RF_INTERFACES - 1
    /\ ret = 0

\* the builder has run on the parsed records of cmd.m and returned a message
Built ==
    /\ ~crashed
    /\ cmd.op \in {"build_ndef_msg", "create_snep_cp"}
    /\ cmd.ok
    /\ built.res >= 0

C4_IdLengthFlag ==
    Built =>
        \A i \in 1 .. Len(built.recs) :
           HasBit(built.recs[i].flags, NDEF_FLAG_IL)
             <=> (built.recs[i].ilen > 0)

\* the capacity the builder was given: len, or what create_snep_cp leaves
\* of len after the SNEP header
Capacity ==
    IF cmd.op = "create_snep_cp"
    THEN (IF cmd.len >= SizeofSnep THEN cmd.len - SizeofSnep ELSE 0)
    ELSE cmd.len

\* C5: build_ndef_msg writes no byte at an offset at or past the capacity
\* it was given, whether it returns a message or fails; nor does it through
\* create_snep_cp, whose capacity is len less the SNEP header.
C5_WithinCapacity ==
    (~crashed /\ cmd.op \in {"build_ndef_msg", "create_snep_cp"} /\ cmd.ok)
        => built.hi <= Capacity

\* C9: parse_sap accepts a value if and only if it is in 0 ..
\* LLCP_NUMBER_OF_SAPS - 1, or is -1 with the field auto-detectable, and
\* returns the value it accepted.
C9_SapRange ==
    (Ran("fn", "parse_sap") /\ cmd.a.k = "num") =>
        /\ (ret = 0) <=> \/ cmd.a.v \in 0 .. LLCP_NUMBER_OF_SAPS - 1
                         \/ cmd.a.v = -1 /\ cmd.ok
        /\ (ret = 0) => cmd.len = cmd.a.v

\* -1 was accepted for an auto-detectable field
C9_Witness ==
    /\ Ran("fn", "parse_sap")
    /\ cmd.a = NumTok(-1)
    /\ cmd.ok
    /\ ret = 0

\* the bytes a record literal takes on the wire: its header, with the id
\* length byte the builder adds for an id text, and its decoded fields
WireSize(lit) ==
    2 + (IF HasBit(lit.flags.v, NDEF_FLAG_SR) THEN 1 ELSE 4)
      + (IF Len(lit.id.s) # 0 THEN 1 ELSE 0)
      + DecodedLen(Len(lit.type.s)) + DecodedLen(Len(lit.id.s))
      + DecodedLen(Len(lit.payload.s))

RECURSIVE MessageSize(_)
MessageSize(m) ==
    IF m = << >> THEN 0 ELSE WireSize(Head(m)) + MessageSize(Tail(m))

\* the record literal has a reserved flag bit, or SR with a payload of more
\* than 255 bytes, or a field that is no base64url text
OffendingRecord(lit) ==
    \/ OutsideFlagBits(lit.flags.v) # 0
    \/ /\ HasBit(lit.flags.v, NDEF_FLAG_SR)
       /\ DecodedLen(Len(lit.payload.s)) > 255
    \/ \E text \in {lit.type.s, lit.id.s, lit.payload.s} : ~IsBase64(text)

\* the destination of the message of the command
DestCapacity ==
    IF cmd.fam = "snep" THEN SnepFrameLen - SizeofSnep
    ELSE MAXIMUM_SUPPORTED_TAG_SIZE

\* C6: tag set and snep put fail, and install no message, whenever a record
\* at any place of the list has a reserved flag bit, or SR with a payload
\* of more than 255 bytes, or a field that does not decode within what is
\* left of the destination.
C6_OffendingRecordFails ==
    (/\ ~crashed
     /\ cmd.fam \in {"tag", "snep"}
     /\ cmd.op \in {"set", "put"}
     /\ \/ \E k \in 1 .. Len(cmd.m) : OffendingRecord(cmd.m[k])
        \/ MessageSize(cmd.m) > DestCapacity)
        => (ret = -1 /\ tag = pre.tag)

\* C7: tag set with no record or with more than four fails and leaves the
\* tag as it was; tag set on an endpoint that is no tag fails; the tag's
\* content changes only with 1 to 4 records.
C7_TagSetRecordCount ==
    Ran("tag", "set") =>
        /\ (Len(cmd.m) = 0 \/ Len(cmd.m) > 4) => (ret = -1 /\ tag = pre.tag)
        /\ (cmd.a.k = "num" /\ cmd.a.v \in Res /\ ~ReTable[cmd.a.v].hastag)
              => ret = -1
        /\ (tag # pre.tag) => Len(cmd.m) \in 1 .. 4

\* the host operations that take a pair of SAPs
SapCalls ==
    {"nfc_re_send_snep_put", "nfc_re_recv_snep_put",
     "nfc_re_send_llcp_connect"}

\* C8: the SAPs handed to the host's SNEP send, SNEP receive and LLCP
\* connect are both in 0 .. LLCP_NUMBER_OF_SAPS - 1, a -1 on the command
\* line having been resolved, and for LLCP connect both are non-zero.
C8_SapsResolved ==
    (~crashed /\ cmd.fam \in {"snep", "llcp"}) =>
        \A k \in 1 .. Len(host) :
           host[k].fn \in SapCalls =>
              /\ host[k].a \in 0 .. LLCP_NUMBER_OF_SAPS - 1
              /\ host[k].b \in 0 .. LLCP_NUMBER_OF_SAPS - 1
              /\ host[k].fn = "nfc_re_send_llcp_connect"
                    => (host[k].a # 0 /\ host[k].b # 0)

\* the arguments of snep put parse: both SAPs and the record list
SnepArgsParse ==
    /\ parse_sap("DSAP", cmd.a, TRUE).rc = 0
    /\ parse_sap("SSAP", cmd.b, TRUE).rc = 0
    /\ parse_ndef_msg(cmd.m, 4).n >= 0

\* C10: snep put whose arguments parse dispatches exactly once, to recv_dta
\* for no record and to send_dta for 1 to 4 records; snep put whose
\* arguments do not parse dispatches nothing.
C10_SnepDispatch ==
    Ran("snep", "put") =>
        IF SnepArgsParse
        THEN disp = (IF Len(cmd.m) = 0 THEN << "recv_dta" >>
                     ELSE << "send_dta" >>)
        ELSE disp = << >>

\* four records were sent
C10_Witness ==
    /\ Ran("snep", "put")
    /\ SnepArgsParse
    /\ Len(cmd.m) = 4
    /\ disp = << "send_dta" >>

\* the operations each dispatcher supports
SupportedOps ==
    [snep |-> {"put"},
     nci  |-> {"rf_discover_ntf", "rf_intf_activated_ntf",
               "rf_intf_deactivate_ntf"},
     llcp |-> {"connect"},
     tag  |-> {"set", "clear", "format"}]

\* C13: a dispatcher handed a keyword that is none of its operations
\* returns failure and leaves the host state as it was; so does the tag
\* dispatcher for every keyword but set, clear and format.
C13_UnknownOperationFails ==
    (/\ ~crashed
     /\ cmd.fam \in DOMAIN SupportedOps
     /\ cmd.op \notin SupportedOps[cmd.fam])
        => (ret = -1 /\ Host = pre)

\* the bytes a field text of a record literal decodes to
FieldBytes(text) == decode_base64(text, SizeMod - 1).bytes

\* a list of 1 to 4 records was built and handed to the Reporter
RoundTripped ==
    /\ Ran("fn", "round_trip")
    /\ cmd.ok
    /\ Len(cmd.m) \in 1 .. 4
    /\ built.res >= 0

\* C11: the Reporter, run over a message built from 1 to 4 records, logs
\* one entry per record, in order, with the record's TNF and with type, id
\* and payload texts that decode to the bytes the record's texts decoded
\* to; the length fields are the decoded lengths, and the Reporter advances
\* by what the builder wrote for the record.
C11_RoundTrip ==
    RoundTripped =>
        /\ report.res = 0
        /\ Len(report.entries) = Len(cmd.m)
        /\ \A i \in 1 .. Len(report.entries) :
              /\ i <= Len(cmd.m)
              /\ report.entries[i].fits
              /\ report.entries[i].tnf = cmd.m[i].tnf.v
              /\ FieldBytes(report.entries[i].type)
                   = FieldBytes(cmd.m[i].type.s)
              /\ FieldBytes(report.entries[i].id) = FieldBytes(cmd.m[i].id.s)
              /\ FieldBytes(report.entries[i].payload)
                   = FieldBytes(cmd.m[i].payload.s)
              /\ report.entries[i].tlen = Len(FieldBytes(cmd.m[i].type.s))
              /\ report.entries[i].ilen = Len(FieldBytes(cmd.m[i].id.s))
              /\ report.entries[i].plen = Len(FieldBytes(cmd.m[i].payload.s))
              /\ report.entries[i].off = built.recs[i].off
              /\ report.entries[i].reclen
                   = built.recs[i].hdrlen + built.recs[i].tlen
                     + built.recs[i].ilen + built.recs[i].plen

\* C12: the Reporter reads no byte outside the len bytes it was given, and
\* logs no record whose declared length exceeds what was left of them.
C12_ReporterInBounds ==
    (cmd.op = "nfc_recv_process_ndef_cb") =>
        /\ report.hi <= cmd.len
        /\ \A i \in 1 .. Len(report.entries) :
              report.entries[i].off + report.entries[i].reclen <= cmd.len

====
